---- MODULE Spec2Model ----
(***************************************************************************)
(* Week planner of ridechecks: src/logic.py.                               *)
(*                                                                         *)
(* generate_multiple_day_assignments iterates the days of a week; every    *)
(* open day runs generate_day_assignment, which is a randomized            *)
(* backtracking search (dfs) followed by a hill-climb of single-ride       *)
(* transfers.  Rides, workers and days are numbered in the insertion order *)
(* of their dictionaries, so "dict order" is ascending order.  Strings are *)
(* sequences of one-character strings.  A value that may be None is a      *)
(* record [isNone, dict].                                                  *)
(***************************************************************************)
EXTENDS Integers, Sequences, FiniteSets, TLC

\* ------------------------------------------------------------------ bounds
MaxRides == 2
MaxWorkers == 2
MaxTime == 2
MaxDays == 2
\* most entries a day's rides_ua and workers_ua hold together
MaxUa == 1
\* largest remaining time and duration handed to should_transfer on its own
MaxRemaining == 6

Times == 0..MaxTime

\* ------------------------------------------------------------ program text
string_success == <<"G", "e", "n", "e", "r", "a", "t", "e", "d", " ", "w", "o", "r", "k", "e", "r", " ", "s", "c", "h", "e", "d", "u", "l", "e", " ", "f", "o", "r", " ">>
string_failure == <<"C", "o", "u", "l", "d", " ", "n", "o", "t", " ", "f", "i", "n", "d", " ", "a", " ", "w", "o", "r", "k", "e", "r", " ", "s", "c", "h", "e", "d", "u", "l", "e", " ", "f", "o", "r", " ">>
separator == <<",", " ">>
DayNames == <<<<"m", "o", "n">>, <<"t", "u", "e">>, <<"w", "e", "d">>, <<"t", "h", "u">>>>
DayName(d) == DayNames[d]

NoneValue == [isNone |-> TRUE, dict |-> <<>>]
Some(d) == [isNone |-> FALSE, dict |-> d]

VARIABLES
  all_rides_time,            \* argument: ride -> duration
  all_workers_can_check,     \* argument: worker -> set of rides
  days_info,                 \* argument: sequence of day records, in dict order
  pc,                        \* "loop", "dfs", "hillclimb", "returned", "raised"
  day,                       \* position of the for loop over days_info
  multiple_day_assignments,  \* None or day -> assignment
  status_string,
  success,
  day_assignment,            \* last value returned by generate_day_assignment
  worker_time,               \* arguments of the running generate_day_assignment
  rides_time,
  workers_can_check,
  stack,                     \* activations of dfs, innermost last
  complete_assignment,
  complete_worker_times_remaining,
  calls,                     \* history: day -> state of its generate_day_assignment call
  transfers,                 \* history: calls of hillclimb that returned True in the running call
  solution,                  \* generate_assignments.py: what csp_solution returned
  rides_display,             \* RidesWidget: the lines "ride, time"
  ride_delete,               \* RidesWidget: options of the 'Delete ride' dropdown
  grid_rows,                 \* WorkerPermissionGrid: row names (workers)
  grid_columns,              \* WorkerPermissionGrid: column names (rides)
  worker_delete,             \* WorkerPermissionsWidget: options of 'Delete worker'
  unavailable_workers_display,  \* DayWidget: lines of the absent workers
  unavailable_workers_add,      \* DayWidget: options of 'Set worker absent'
  unavailable_workers_remove,   \* DayWidget: options of 'Set worker present'
  unavailable_rides_display,    \* DayWidget: lines of the closed rides
  unavailable_rides_add,        \* DayWidget: options of 'Set ride closed'
  unavailable_rides_remove,     \* DayWidget: options of 'Set ride open'
  last_op                    \* history: the last operation of the window

vars == <<all_rides_time, all_workers_can_check, days_info, pc, day,
          multiple_day_assignments, status_string, success, day_assignment,
          worker_time, rides_time, workers_can_check, stack,
          complete_assignment, complete_worker_times_remaining, calls, transfers,
          solution, rides_display, ride_delete, grid_rows, grid_columns,
          worker_delete, unavailable_workers_display, unavailable_workers_add,
          unavailable_workers_remove, unavailable_rides_display,
          unavailable_rides_add, unavailable_rides_remove, last_op>>

\* the widgets of the window of ridechecks_app.py
editorVars == <<rides_display, ride_delete, grid_rows, grid_columns,
                worker_delete, unavailable_workers_display, unavailable_workers_add,
                unavailable_workers_remove, unavailable_rides_display,
                unavailable_rides_add, unavailable_rides_remove, last_op>>

inputs == <<all_rides_time, all_workers_can_check, days_info>>
weekVars == <<multiple_day_assignments, status_string, success>>
dayArgs == <<worker_time, rides_time, workers_can_check>>
hillVars == <<complete_assignment, complete_worker_times_remaining, transfers>>

\* ----------------------------------------------------------------- helpers
Min(S) == CHOOSE x \in S : \A y \in S : x <= y

\* dict | {k: v}
Put(d, k, v) == [x \in DOMAIN d \cup {k} |-> IF x = k THEN v ELSE d[x]]

\* without_keys that filters nothing
without_keys_nothing(d, keys_to_exclude) == d

without_keys(d, keys_to_exclude) == [k \in DOMAIN d \ keys_to_exclude |-> d[k]]

\* ------------------------------------------------- activations of dfs
top == stack[Len(stack)]

IsComplete(partial_assignment) ==
  Cardinality(DOMAIN partial_assignment) = Cardinality(DOMAIN rides_time)

\* next(ride for ride in rides_time if ride not in partial_assignment)
NextRide(partial_assignment) == Min(DOMAIN rides_time \ DOMAIN partial_assignment)

\* the condition of dfs without its comparison of times
CanTakeOverBudget(worker, ride, partial_worker_times_remaining) ==
  ride \in workers_can_check[worker]

\* the condition under which the for loop of dfs assigns ride to worker
CanTake(worker, ride, partial_worker_times_remaining) ==
  /\ ride \in workers_can_check[worker]
  /\ rides_time[ride] <= partial_worker_times_remaining[worker]

\* the activation dfs(partial_assignment, partial_worker_times_remaining): its
\* arguments and, of the shuffled list its for loop runs over, the workers
\* still to come that the loop does not pass over (the order among them is
\* the shuffle's, any)
\* a for loop that gives up after the first worker of the dict
FrameFirstWorker(partial_assignment, partial_worker_times_remaining) ==
  [partial_assignment |-> partial_assignment,
   partial_worker_times_remaining |-> partial_worker_times_remaining,
   workers |-> IF IsComplete(partial_assignment) THEN {}
               ELSE {worker \in DOMAIN workers_can_check :
                       /\ worker = Min(DOMAIN workers_can_check)
                       /\ CanTake(worker, NextRide(partial_assignment),
                                  partial_worker_times_remaining)}]

Frame(partial_assignment, partial_worker_times_remaining) ==
  [partial_assignment |-> partial_assignment,
   partial_worker_times_remaining |-> partial_worker_times_remaining,
   workers |-> IF IsComplete(partial_assignment) THEN {}
               ELSE {worker \in DOMAIN workers_can_check :
                       CanTake(worker, NextRide(partial_assignment),
                               partial_worker_times_remaining)}]

\* ---------------------------------------------------------------- the week
\* the registries and the budget of the example at the end of logic.py:
\* rides wooden, scary, slow, fast and workers john, bob, in dict order
ExampleTime == 20
example_ride_times == <<10, 1, 1, 5>>
example_can_check == <<{1, 4}, {2, 3}>>

\* a day of a week over given registries: closed or open, with at most MaxUa
\* rides and workers unavailable
DayInfos(times) ==
  {info \in [time : times,
             rides_ua : SUBSET DOMAIN all_rides_time,
             workers_ua : SUBSET DOMAIN all_workers_can_check] :
      Cardinality(info.rides_ua) + Cardinality(info.workers_ua) <= MaxUa}

\* one open day on which everybody and everything is available, over every
\* registry of at most MaxRides rides and MaxWorkers workers
InitOneDay ==
  /\ \E n \in 0..MaxRides : all_rides_time \in [1..n -> Times]
  /\ \E m \in 0..MaxWorkers :
        all_workers_can_check \in [1..m -> SUBSET DOMAIN all_rides_time]
  /\ \E t \in Times \ {0} :
        days_info = << [time |-> t, rides_ua |-> {}, workers_ua |-> {}] >>

\* every week of at most MaxDays days over the example's registries
InitWeek ==
  /\ all_rides_time = example_ride_times
  /\ all_workers_can_check = example_can_check
  /\ \E n \in 0..MaxDays : days_info \in [1..n -> DayInfos({0, ExampleTime})]

\* the longer weeks, of MaxDays + 1 days, over the example's registries in
\* which only the staffing varies: a day is closed or open, and the first
\* worker is there or not
InitLongWeek ==
  /\ all_rides_time = example_ride_times
  /\ all_workers_can_check = example_can_check
  /\ days_info \in [1..(MaxDays + 1) ->
                      [time : {0, ExampleTime}, rides_ua : {{}},
                       workers_ua : {{}, {1}}]]

\* two open days with the same budget over a registry of MaxRides rides and
\* MaxWorkers workers: everybody is there on the first day, one worker is
\* unavailable on the second
InitTwoDays ==
  /\ all_rides_time \in [1..MaxRides -> Times]
  /\ all_workers_can_check \in [1..MaxWorkers -> SUBSET DOMAIN all_rides_time]
  /\ \E worker \in DOMAIN all_workers_can_check :
        days_info = << [time |-> MaxTime, rides_ua |-> {}, workers_ua |-> {}],
                       [time |-> MaxTime, rides_ua |-> {},
                        workers_ua |-> {worker}] >>

\* the locals of generate_multiple_day_assignments before its loop
InitLocals ==
  /\ pc = "loop"
  /\ day = 1
  /\ multiple_day_assignments = Some(<<>>)
  /\ status_string = string_success
  /\ success = TRUE
  /\ day_assignment = NoneValue
  /\ worker_time = 0
  /\ rides_time = <<>>
  /\ workers_can_check = <<>>
  /\ stack = <<>>
  /\ complete_assignment = <<>>
  /\ complete_worker_times_remaining = <<>>
  /\ calls = <<>>
  /\ transfers = 0

\* no window: every widget of ridechecks_app.py is empty
NoWindow ==
  /\ rides_display = <<>>
  /\ ride_delete = <<>>
  /\ grid_rows = <<>>
  /\ grid_columns = <<>>
  /\ worker_delete = <<>>
  /\ unavailable_workers_display = <<>>
  /\ unavailable_workers_add = <<>>
  /\ unavailable_workers_remove = <<>>
  /\ unavailable_rides_display = <<>>
  /\ unavailable_rides_add = <<>>
  /\ unavailable_rides_remove = <<>>
  /\ last_op = [op |-> "none"]

Init ==
  /\ InitOneDay \/ InitWeek \/ InitLongWeek
  /\ InitLocals
  /\ solution = NoneValue
  /\ NoWindow

InitExclusion ==
  /\ InitTwoDays \/ InitWeek
  /\ InitLocals
  /\ solution = NoneValue
  /\ NoWindow

\* worker_time == 0: the day is closed
WeekClosedDay ==
  /\ pc = "loop"
  /\ day <= Len(days_info)
  /\ days_info[day].time = 0
  /\ ~multiple_day_assignments.isNone
  /\ multiple_day_assignments' = Some(Put(multiple_day_assignments.dict, day, <<>>))
  /\ day' = day + 1
  /\ UNCHANGED <<solution, editorVars, inputs, pc, status_string, success, day_assignment, dayArgs,
                 stack, hillVars, calls>>

\* the same statement when multiple_day_assignments is None: item assignment
\* on None raises TypeError and the function is left by the exception
WeekClosedDayRaise ==
  /\ pc = "loop"
  /\ day <= Len(days_info)
  /\ days_info[day].time = 0
  /\ multiple_day_assignments.isNone
  /\ pc' = "raised"
  /\ UNCHANGED <<solution, editorVars, inputs, day, weekVars, day_assignment, dayArgs, stack,
                 hillVars, calls>>

\* an open day: the day's registries, then the call of generate_day_assignment
\* up to the first activation of dfs
\* an open day that keeps the workers' dict an earlier open day has made
WeekOpenDayCached ==
  /\ pc = "loop"
  /\ day <= Len(days_info)
  /\ days_info[day].time # 0
  /\ worker_time' = days_info[day].time
  /\ rides_time' = without_keys(all_rides_time, days_info[day].rides_ua)
  /\ workers_can_check' =
        IF DOMAIN workers_can_check # {} THEN workers_can_check
        ELSE without_keys(all_workers_can_check, days_info[day].workers_ua)
  /\ stack' = << Frame(<<>>, [worker \in DOMAIN workers_can_check |-> worker_time])' >>
  /\ pc' = "dfs"
  /\ calls' = Put(calls, day, "running")
  /\ UNCHANGED <<solution, editorVars, inputs, day, weekVars, day_assignment, hillVars>>

WeekOpenDay ==
  /\ pc = "loop"
  /\ day <= Len(days_info)
  /\ days_info[day].time # 0
  /\ worker_time' = days_info[day].time
  /\ rides_time' = without_keys(all_rides_time, days_info[day].rides_ua)
  /\ workers_can_check' = without_keys(all_workers_can_check, days_info[day].workers_ua)
  /\ stack' = << Frame(<<>>, [worker \in DOMAIN workers_can_check |-> worker_time])' >>
  /\ pc' = "dfs"
  /\ calls' = Put(calls, day, "running")
  /\ UNCHANGED <<solution, editorVars, inputs, day, weekVars, day_assignment, hillVars>>

\* the loop body without "multiple_day_assignments = None"
RecordedKeepingPlan(result) ==
  IF result.isNone
    THEN [multiple_day_assignments |-> multiple_day_assignments,
          success |-> FALSE,
          status_string |-> (IF success THEN string_failure ELSE status_string)
                               \o DayName(day) \o separator]
    ELSE IF success
      THEN [multiple_day_assignments |->
               Some(Put(multiple_day_assignments.dict, day, result.dict)),
            success |-> success,
            status_string |-> status_string \o DayName(day) \o separator]
      ELSE [multiple_day_assignments |-> multiple_day_assignments,
            success |-> success,
            status_string |-> status_string]

\* "if day_assignment == None: ..." and "if success: ...": the plan, the flag
\* and the narrative after the day whose call returned result
\* the loop body that names a day in the narrative whenever its search found
\* an assignment
RecordedAppendingLater(result) ==
  IF result.isNone
    THEN [multiple_day_assignments |-> NoneValue,
          success |-> FALSE,
          status_string |-> (IF success THEN string_failure ELSE status_string)
                               \o DayName(day) \o separator]
    ELSE [multiple_day_assignments |->
             IF success THEN Some(Put(multiple_day_assignments.dict, day, result.dict))
                        ELSE multiple_day_assignments,
          success |-> success,
          status_string |-> status_string \o DayName(day) \o separator]

\* lines 165 to 175 without "status_string = string_failure"
RecordedKeepingNarrative(result) ==
  IF result.isNone
    THEN [multiple_day_assignments |-> NoneValue,
          success |-> FALSE,
          status_string |-> status_string \o DayName(day) \o separator]
    ELSE IF success
      THEN [multiple_day_assignments |->
               Some(Put(multiple_day_assignments.dict, day, result.dict)),
            success |-> success,
            status_string |-> status_string \o DayName(day) \o separator]
      ELSE [multiple_day_assignments |-> multiple_day_assignments,
            success |-> success,
            status_string |-> status_string]

Recorded(result) ==
  IF result.isNone
    THEN [multiple_day_assignments |-> NoneValue,
          success |-> FALSE,
          status_string |-> (IF success THEN string_failure ELSE status_string)
                               \o DayName(day) \o separator]
    ELSE IF success
      THEN [multiple_day_assignments |->
               Some(Put(multiple_day_assignments.dict, day, result.dict)),
            success |-> success,
            status_string |-> status_string \o DayName(day) \o separator]
      ELSE [multiple_day_assignments |-> multiple_day_assignments,
            success |-> success,
            status_string |-> status_string]

\* the rest of the loop body, once generate_day_assignment has returned result
DayReturn(result) ==
  /\ day_assignment' = result
  /\ multiple_day_assignments' = Recorded(result).multiple_day_assignments
  /\ success' = Recorded(result).success
  /\ status_string' = Recorded(result).status_string
  /\ calls' = Put(calls, day, IF result.isNone THEN "None" ELSE "dict")
  /\ day' = day + 1
  /\ pc' = "loop"
  /\ stack' = <<>>
  /\ complete_assignment' = <<>>
  /\ complete_worker_times_remaining' = <<>>
  /\ transfers' = 0
  /\ UNCHANGED <<solution, editorVars, inputs, dayArgs>>

\* status_string[:-2]
Trimmed(s) == SubSeq(s, 1, Len(s) - 2)

WeekReturn ==
  /\ pc = "loop"
  /\ day > Len(days_info)
  /\ status_string' = Trimmed(status_string)
  /\ pc' = "returned"
  /\ UNCHANGED <<solution, editorVars, inputs, day, multiple_day_assignments, success, day_assignment,
                 dayArgs, stack, hillVars, calls>>

\* --------------------------------------------------------------------- dfs
\* one turn of "for worker in workers" that makes the recursive call: the
\* worker takes the ride and dfs is called on the extended assignment
DfsTry(worker) ==
  /\ pc = "dfs"
  /\ ~IsComplete(top.partial_assignment)
  /\ worker \in top.workers
  /\ LET ride == NextRide(top.partial_assignment)
         left == top.partial_worker_times_remaining
     IN  stack' = Append([stack EXCEPT ![Len(stack)].workers = @ \ {worker}],
                         Frame(Put(top.partial_assignment, ride, worker),
                               Put(left, worker, left[worker] - rides_time[ride])))
  /\ UNCHANGED <<solution, editorVars, inputs, pc, day, weekVars, day_assignment, dayArgs, hillVars, calls>>

\* the for loop of an inner activation is exhausted: it returns {} and its
\* caller goes on with its own loop
DfsBacktrack ==
  /\ pc = "dfs"
  /\ Len(stack) > 1
  /\ ~IsComplete(top.partial_assignment)
  /\ top.workers = {}
  /\ stack' = SubSeq(stack, 1, Len(stack) - 1)
  /\ UNCHANGED <<solution, editorVars, inputs, pc, day, weekVars, day_assignment, dayArgs, hillVars, calls>>

\* what the outermost dfs call hands back once the top activation returns
\* without further search: the base case's assignment, passed up unchanged by
\* every caller that sees it # {}, or {} from the exhausted outermost loop
DfsResult ==
  IF IsComplete(top.partial_assignment) THEN top.partial_assignment ELSE <<>>

\* an inner activation's {} taken for the answer of the whole search
DfsReturnsWithoutBacktracking ==
  \/ IsComplete(top.partial_assignment)
  \/ top.workers = {}

DfsReturns ==
  \/ IsComplete(top.partial_assignment)
  \/ Len(stack) = 1 /\ top.workers = {}

\* complete_assignment == {}: generate_day_assignment returns None
DfsNone ==
  /\ pc = "dfs"
  /\ DfsReturns
  /\ DfsResult = <<>>
  /\ DayReturn(NoneValue)

DfsFound ==
  /\ pc = "dfs"
  /\ DfsReturns
  /\ DfsResult # <<>>
  /\ complete_assignment' = DfsResult
  /\ complete_worker_times_remaining' = top.partial_worker_times_remaining
  /\ stack' = <<>>
  /\ pc' = "hillclimb"
  /\ UNCHANGED <<solution, editorVars, inputs, day, weekVars, day_assignment, dayArgs, calls, transfers>>

\* --------------------------------------------------------------- hillclimb
Abs(x) == IF x < 0 THEN -x ELSE x

\* should_transfer with the last comparison turned round
should_transfer_flipped(accepting_worker_time_remaining, transferring_worker_time_remaining, ride_time) ==
  LET new_diff == Abs(accepting_worker_time_remaining
                        - transferring_worker_time_remaining - 2 * ride_time)
      old_diff == Abs(accepting_worker_time_remaining
                        - transferring_worker_time_remaining)
  IN  new_diff < old_diff
        /\ accepting_worker_time_remaining < transferring_worker_time_remaining

\* should_transfer with "new_diff <= old_diff"
should_transfer_or_equal(accepting_worker_time_remaining, transferring_worker_time_remaining, ride_time) ==
  LET new_diff == Abs(accepting_worker_time_remaining
                        - transferring_worker_time_remaining - 2 * ride_time)
      old_diff == Abs(accepting_worker_time_remaining
                        - transferring_worker_time_remaining)
  IN  new_diff <= old_diff
        /\ accepting_worker_time_remaining > transferring_worker_time_remaining

\* should_transfer without "new_diff < old_diff"
should_transfer_any_gap(accepting_worker_time_remaining, transferring_worker_time_remaining, ride_time) ==
  accepting_worker_time_remaining > transferring_worker_time_remaining

should_transfer(accepting_worker_time_remaining, transferring_worker_time_remaining, ride_time) ==
  LET new_diff == Abs(accepting_worker_time_remaining
                        - transferring_worker_time_remaining - 2 * ride_time)
      old_diff == Abs(accepting_worker_time_remaining
                        - transferring_worker_time_remaining)
  IN  new_diff < old_diff
        /\ accepting_worker_time_remaining > transferring_worker_time_remaining

rides_to_transfer(transferring_worker) ==
  {ride \in DOMAIN complete_assignment :
      complete_assignment[ride] = transferring_worker}

\* the filter of try_transfer_ride without "ride in workers_can_check[worker]"
accepting_workers_uncertified(transferring_worker, ride) ==
  {worker \in DOMAIN workers_can_check : worker # transferring_worker}

accepting_workers(transferring_worker, ride) ==
  {worker \in DOMAIN workers_can_check :
      worker # transferring_worker /\ ride \in workers_can_check[worker]}

\* the accepting workers the inner loop of try_transfer_ride would return on
Takers(transferring_worker, ride) ==
  {worker \in accepting_workers(transferring_worker, ride) :
      should_transfer(complete_worker_times_remaining[worker],
                      complete_worker_times_remaining[transferring_worker],
                      rides_time[ride])}

\* try_transfer_ride(transferring_worker) can return (ride, accepting worker):
\* the ride is the first of the shuffled rides with a taker, the accepting
\* worker the first taker in dict order
try_transfer_ride(transferring_worker, ride) ==
  /\ ride \in rides_to_transfer(transferring_worker)
  /\ Takers(transferring_worker, ride) # {}

\* one call of hillclimb that returns True
\* hillclimb with the two updates of worker_times_remaining exchanged
HillclimbTransferSwapped(transferring_worker, ride_transferred) ==
  /\ pc = "hillclimb"
  /\ transferring_worker \in DOMAIN workers_can_check
  /\ try_transfer_ride(transferring_worker, ride_transferred)
  /\ LET accepting_worker == Min(Takers(transferring_worker, ride_transferred))
         d == rides_time[ride_transferred]
     IN  /\ complete_assignment' =
               [complete_assignment EXCEPT ![ride_transferred] = accepting_worker]
         /\ complete_worker_times_remaining' =
               [complete_worker_times_remaining EXCEPT
                   ![transferring_worker] = @ - d,
                   ![accepting_worker] = @ + d]
  /\ transfers' = transfers + 1
  /\ UNCHANGED <<solution, editorVars, inputs, pc, day, weekVars, day_assignment, dayArgs, stack, calls>>

\* hillclimb without "worker_times_remaining[transferring_worker] += ..."
HillclimbTransferNoCredit(transferring_worker, ride_transferred) ==
  /\ pc = "hillclimb"
  /\ transferring_worker \in DOMAIN workers_can_check
  /\ try_transfer_ride(transferring_worker, ride_transferred)
  /\ LET accepting_worker == Min(Takers(transferring_worker, ride_transferred))
         d == rides_time[ride_transferred]
     IN  /\ complete_assignment' =
               [complete_assignment EXCEPT ![ride_transferred] = accepting_worker]
         /\ complete_worker_times_remaining' =
               [complete_worker_times_remaining EXCEPT ![accepting_worker] = @ - d]
  /\ transfers' = transfers + 1
  /\ UNCHANGED <<solution, editorVars, inputs, pc, day, weekVars, day_assignment, dayArgs, stack, calls>>

HillclimbTransfer(transferring_worker, ride_transferred) ==
  /\ pc = "hillclimb"
  /\ transferring_worker \in DOMAIN workers_can_check
  /\ try_transfer_ride(transferring_worker, ride_transferred)
  /\ LET accepting_worker == Min(Takers(transferring_worker, ride_transferred))
         d == rides_time[ride_transferred]
     IN  /\ complete_assignment' =
               [complete_assignment EXCEPT ![ride_transferred] = accepting_worker]
         /\ complete_worker_times_remaining' =
               [complete_worker_times_remaining EXCEPT
                   ![transferring_worker] = @ + d,
                   ![accepting_worker] = @ - d]
  /\ transfers' = transfers + 1
  /\ UNCHANGED <<solution, editorVars, inputs, pc, day, weekVars, day_assignment, dayArgs, stack, calls>>

\* a while loop that never enters hillclimb a second time
CanImproveNever == FALSE

CanImprove ==
  \E transferring_worker \in DOMAIN workers_can_check :
     \E ride \in DOMAIN complete_assignment :
        try_transfer_ride(transferring_worker, ride)

\* the call of hillclimb that returns False ends the while loop and
\* generate_day_assignment returns complete_assignment
HillclimbStop ==
  /\ pc = "hillclimb"
  /\ ~CanImprove
  /\ DayReturn(Some(complete_assignment))

Next ==
  \/ WeekClosedDay
  \/ WeekClosedDayRaise
  \/ WeekOpenDay
  \/ WeekReturn
  \/ \E worker \in DOMAIN all_workers_can_check : DfsTry(worker)
  \/ DfsBacktrack
  \/ DfsNone
  \/ DfsFound
  \/ \E transferring_worker \in DOMAIN all_workers_can_check :
        \E ride \in DOMAIN all_rides_time :
           HillclimbTransfer(transferring_worker, ride)
  \/ HillclimbStop

Spec == Init /\ [][Next]_vars

\* the same program on the inputs of InitExclusion
SpecExclusion == InitExclusion /\ [][Next]_vars

\* ------------------------------------ generate_assignments.py and csp.py
\* generate_day_assignment of generate_assignments.py up to its hill-climb:
\* pc runs through "csp", "to_ride_assignment", "times", "hillclimb"
RECURSIVE total_ride_times(_, _)
total_ride_times(rides, times) ==
  IF rides = {} THEN 0
  ELSE LET ride == CHOOSE r \in rides : TRUE
       IN  times[ride] + total_ride_times(rides \ {ride}, times)

\* what the solver's constraints admit: for each worker a subset of the rides
\* the worker can check, within the budget, all rides covered
IsSolution(assigned) ==
  /\ \A worker \in DOMAIN assigned :
        total_ride_times(assigned[worker], rides_time) <= worker_time
  /\ UNION {assigned[worker] : worker \in DOMAIN assigned} = DOMAIN rides_time

\* a call generate_day_assignment(worker_time, rides_time, workers_can_check)
\* run as the script runs it, with the registry in the global ride_times
InitCsp ==
  /\ \E n \in 0..MaxRides : all_rides_time \in [1..n -> Times]
  /\ \E m \in 1..MaxWorkers :
        all_workers_can_check \in [1..m -> SUBSET DOMAIN all_rides_time]
  /\ worker_time \in Times \ {0}
  /\ rides_time = all_rides_time
  /\ workers_can_check = all_workers_can_check
  /\ days_info = <<>>
  /\ pc = "csp"
  /\ day = 1
  /\ multiple_day_assignments = Some(<<>>)
  /\ status_string = string_success
  /\ success = TRUE
  /\ day_assignment = NoneValue
  /\ stack = <<>>
  /\ complete_assignment = <<>>
  /\ complete_worker_times_remaining = <<>>
  /\ calls = <<>>
  /\ transfers = 0
  /\ solution = NoneValue
  /\ NoWindow

cspFrame == <<editorVars, inputs, day, weekVars, dayArgs, stack, calls, transfers>>

\* the solver returns a solution: any assignment its constraints admit
CspSolution ==
  /\ pc = "csp"
  /\ \E assigned \in [DOMAIN workers_can_check -> SUBSET DOMAIN rides_time] :
        /\ \A worker \in DOMAIN assigned : assigned[worker] \subseteq workers_can_check[worker]
        /\ IsSolution(assigned)
        /\ solution' = Some(assigned)
  /\ pc' = "to_ride_assignment"
  /\ UNCHANGED <<cspFrame, day_assignment, complete_assignment,
                 complete_worker_times_remaining>>

\* the solver gives up and generate_day_assignment returns None
CspNone ==
  /\ pc = "csp"
  /\ solution' = NoneValue
  /\ day_assignment' = NoneValue
  /\ pc' = "returned"
  /\ UNCHANGED <<cspFrame, complete_assignment, complete_worker_times_remaining>>

\* sorted(..., key=len) without reverse=True
sorted_solution_ascending(assigned) ==
  LET Rank(worker) ==
        1 + Cardinality({other \in DOMAIN assigned :
               \/ Cardinality(assigned[other]) < Cardinality(assigned[worker])
               \/ /\ Cardinality(assigned[other]) = Cardinality(assigned[worker])
                  /\ other < worker})
  IN  [i \in 1..Cardinality(DOMAIN assigned) |->
          CHOOSE worker \in DOMAIN assigned : Rank(worker) = i]

\* the workers in the order of sorted(solution.items(), key=len of the tuple,
\* reverse=True): longest tuple first, equal lengths in dict order
sorted_solution(assigned) ==
  LET Rank(worker) ==
        1 + Cardinality({other \in DOMAIN assigned :
               \/ Cardinality(assigned[other]) > Cardinality(assigned[worker])
               \/ /\ Cardinality(assigned[other]) = Cardinality(assigned[worker])
                  /\ other < worker})
  IN  [i \in 1..Cardinality(DOMAIN assigned) |->
          CHOOSE worker \in DOMAIN assigned : Rank(worker) = i]

\* the two for loops of to_ride_assignment from the i-th worker on
RECURSIVE Overwritten(_, _, _, _)
Overwritten(order, assigned, i, ride_assignment) ==
  IF i > Len(order) THEN ride_assignment
  ELSE Overwritten(order, assigned, i + 1,
          [ride \in DOMAIN ride_assignment \cup assigned[order[i]] |->
              IF ride \in assigned[order[i]] THEN order[i] ELSE ride_assignment[ride]])

to_ride_assignment(assigned) ==
  Overwritten(sorted_solution(assigned), assigned, 1, <<>>)

ToRideAssignment ==
  /\ pc = "to_ride_assignment"
  /\ complete_assignment' = to_ride_assignment(solution.dict)
  /\ pc' = "times"
  /\ UNCHANGED <<cspFrame, solution, day_assignment, complete_worker_times_remaining>>

\* the budget for every worker, less the time of each ride of the assignment
RemainingTimes ==
  /\ pc = "times"
  /\ complete_worker_times_remaining' =
        [worker \in DOMAIN workers_can_check |->
            worker_time - total_ride_times({ride \in DOMAIN complete_assignment :
                                              complete_assignment[ride] = worker},
                                           all_rides_time)]
  /\ pc' = "hillclimb"
  /\ UNCHANGED <<cspFrame, solution, day_assignment, complete_assignment>>

NextCsp ==
  \/ CspSolution
  \/ CspNone
  \/ ToRideAssignment
  \/ RemainingTimes

SpecCsp == InitCsp /\ [][NextCsp]_vars

\* ------------------------------------------- should_transfer on its own
\* hillclimb entered with one ride of any duration held by the second of two
\* workers who can both check it, and any two remaining times
InitTransfer ==
  /\ \E d \in 0..MaxRemaining : all_rides_time = << d >>
  /\ all_workers_can_check = << {1}, {1} >>
  /\ complete_worker_times_remaining \in [1..2 -> 0..MaxRemaining]
  /\ complete_assignment = << 2 >>
  /\ worker_time = MaxRemaining
  /\ rides_time = all_rides_time
  /\ workers_can_check = all_workers_can_check
  /\ days_info = <<>>
  /\ pc = "hillclimb"
  /\ day = 1
  /\ multiple_day_assignments = Some(<<>>)
  /\ status_string = string_success
  /\ success = TRUE
  /\ day_assignment = NoneValue
  /\ stack = <<>>
  /\ calls = <<>>
  /\ transfers = 0
  /\ solution = NoneValue
  /\ NoWindow

NextTransfer ==
  \E transferring_worker \in DOMAIN all_workers_can_check :
     \E ride \in DOMAIN all_rides_time :
        HillclimbTransfer(transferring_worker, ride)

SpecTransfer == InitTransfer /\ [][NextTransfer]_vars

\* ------------------------------------------------------ ridechecks_app.py
\* The window with one DayWidget. Strings are sequences of characters; the
\* names typed are made of letters and spaces, so that they pass the
\* validators of the 'Add ride' and 'Add worker' line edits and, read as a
\* regular expression, stand for themselves. The checkboxes of the permission
\* grid are left out: no operation below ticks one.
TypedWorkers == {<<"A", "l">>, <<"A", "l", "a", "n">>, <<"B", "o">>}
TypedRides == {<<"Z", "i", "p">>, <<"Z", "i", "p", " ", "l", "i", "n", "e">>}
TypedDurations == {<<"1">>, <<"2">>}
ride_time_separator == <<",", " ">>

\* where a string occurs in another
Occurrences(s, t) == {i \in 1..(Len(s) - Len(t) + 1) : SubSeq(s, i, i + Len(t) - 1) = t}

\* the characters in use, in code point order
CodePoints == <<" ", ",", "1", "2", "A", "B", "Z", "a", "b", "e", "i", "l", "n", "o", "p", "z">>
Code(c) == CHOOSE i \in DOMAIN CodePoints : CodePoints[i] = c
LowerOf == [c \in {"A", "B", "Z"} |-> IF c = "A" THEN "a" ELSE IF c = "B" THEN "b" ELSE "z"]
UpperOf == [c \in {"a", "b", "z"} |-> IF c = "a" THEN "A" ELSE IF c = "b" THEN "B" ELSE "Z"]
lower(t) == [i \in DOMAIN t |-> IF t[i] \in DOMAIN LowerOf THEN LowerOf[t[i]] ELSE t[i]]
capitalize(t) ==
  [i \in DOMAIN t |-> IF i = 1 /\ t[i] \in DOMAIN UpperOf THEN UpperOf[t[i]] ELSE t[i]]
format_case(t) == capitalize(lower(t))

\* t1 < t2 of Python strings
RECURSIVE Less(_, _)
Less(t1, t2) ==
  IF t2 = <<>> THEN FALSE
  ELSE IF t1 = <<>> THEN TRUE
  ELSE IF Head(t1) # Head(t2) THEN Code(Head(t1)) < Code(Head(t2))
  ELSE Less(Tail(t1), Tail(t2))

RECURSIVE bisect(_, _, _, _)
bisect(a, x, lo, hi) ==
  IF lo < hi
    THEN LET mid == (lo + hi) \div 2
         IN  IF Less(a[mid + 1], x) THEN bisect(a, x, mid + 1, hi)
                                    ELSE bisect(a, x, lo, mid)
    ELSE lo

bisect_left(a, x) == bisect(a, x, 0, Len(a))

\* insertWidget / insertItem at a 0-based row
Inserted(a, row, x) == SubSeq(a, 1, row) \o << x >> \o SubSeq(a, row + 1, Len(a))
RemovedAt(a, i) == SubSeq(a, 1, i - 1) \o SubSeq(a, i + 1, Len(a))

\* re.match(regex, text) for a regex without special characters
re_match(regex, text) ==
  Len(regex) <= Len(text) /\ SubSeq(text, 1, Len(regex)) = regex

add_line(lines, line) == Inserted(lines, bisect_left(lines, line), line)

\* the first label that matches goes, once control is back in the event loop
delete_line(lines, regex) ==
  LET hits == {i \in DOMAIN lines : re_match(regex, lines[i])}
  IN  IF hits = {} THEN lines ELSE RemovedAt(lines, Min(hits))

add_option(options, option_to_add) ==
  Inserted(options, bisect_left(options, option_to_add), option_to_add)

delete_option(options, option_to_delete) ==
  LET hits == {i \in DOMAIN options : options[i] = option_to_delete}
  IN  IF hits = {} THEN options ELSE RemovedAt(options, Min(hits))

_to_line(ride, time) == ride \o ride_time_separator \o time

\* the ride of a line: what stands before the separator
_from_line(line) ==
  SubSeq(line, 1, Min(Occurrences(line, ride_time_separator)) - 1)

read_ride_times == {_from_line(rides_display[i]) : i \in DOMAIN rides_display}
read_permissions == {grid_rows[i] : i \in DOMAIN grid_rows}
Options(dropdown) == {dropdown[i] : i \in DOMAIN dropdown}

InitEditor ==
  /\ NoWindow
  /\ all_rides_time = <<>>
  /\ all_workers_can_check = <<>>
  /\ days_info = <<>>
  /\ pc = "window"
  /\ day = 1
  /\ multiple_day_assignments = Some(<<>>)
  /\ status_string = string_success
  /\ success = TRUE
  /\ day_assignment = NoneValue
  /\ worker_time = 0
  /\ rides_time = <<>>
  /\ workers_can_check = <<>>
  /\ stack = <<>>
  /\ complete_assignment = <<>>
  /\ complete_worker_times_remaining = <<>>
  /\ calls = <<>>
  /\ transfers = 0
  /\ solution = NoneValue

plannerVars == <<inputs, pc, day, weekVars, day_assignment, dayArgs, stack,
                 complete_assignment, complete_worker_times_remaining, calls,
                 transfers, solution>>

\* 'Add ride' submitted with a name and a duration the validator accepts
handle_add_ride(name, duration) ==
  /\ name \notin read_ride_times
  /\ LET ride == format_case(name)
         time == format_case(duration)
     IN  /\ rides_display' = add_line(rides_display, _to_line(ride, time))
         /\ ride_delete' = add_option(ride_delete, ride)
         /\ grid_columns' = Inserted(grid_columns, bisect_left(grid_columns, ride), ride)
         /\ unavailable_rides_add' = add_option(unavailable_rides_add, ride)
         /\ last_op' = [op |-> "add_ride", name |-> ride]
  /\ UNCHANGED <<plannerVars, grid_rows, worker_delete, unavailable_workers_display,
                 unavailable_workers_add, unavailable_workers_remove,
                 unavailable_rides_display, unavailable_rides_remove>>

\* 'Delete ride' submitted with an option of its dropdown
handle_delete_ride(ride) ==
  /\ ride \in Options(ride_delete)
  /\ rides_display' = delete_line(rides_display, ride)
  /\ ride_delete' = delete_option(ride_delete, ride)
  /\ grid_columns' = delete_option(grid_columns, ride)
  /\ unavailable_rides_add' = delete_option(unavailable_rides_add, ride)
  /\ unavailable_rides_remove' = delete_option(unavailable_rides_remove, ride)
  /\ unavailable_rides_display' = delete_line(unavailable_rides_display, ride)
  /\ last_op' = [op |-> "delete_ride", name |-> ride]
  /\ UNCHANGED <<plannerVars, grid_rows, worker_delete, unavailable_workers_display,
                 unavailable_workers_add, unavailable_workers_remove>>

handle_add_worker(name) ==
  /\ name \notin read_permissions
  /\ LET worker_name == format_case(name)
     IN  /\ unavailable_workers_add' = add_option(unavailable_workers_add, worker_name)
         /\ grid_rows' = Inserted(grid_rows, bisect_left(grid_rows, worker_name), worker_name)
         /\ worker_delete' = add_option(worker_delete, worker_name)
         /\ last_op' = [op |-> "add_worker", name |-> worker_name]
  /\ UNCHANGED <<plannerVars, rides_display, ride_delete, grid_columns,
                 unavailable_workers_display, unavailable_workers_remove,
                 unavailable_rides_display, unavailable_rides_add,
                 unavailable_rides_remove>>

handle_delete_worker(worker_name) ==
  /\ worker_name \in Options(worker_delete)
  /\ unavailable_workers_add' = delete_option(unavailable_workers_add, worker_name)
  /\ unavailable_workers_remove' = delete_option(unavailable_workers_remove, worker_name)
  /\ unavailable_workers_display' = delete_line(unavailable_workers_display, worker_name)
  /\ grid_rows' = delete_option(grid_rows, worker_name)
  /\ worker_delete' = delete_option(worker_delete, worker_name)
  /\ last_op' = [op |-> "delete_worker", name |-> worker_name]
  /\ UNCHANGED <<plannerVars, rides_display, ride_delete, grid_columns,
                 unavailable_rides_display, unavailable_rides_add,
                 unavailable_rides_remove>>

handle_set_absent(worker_name) ==
  /\ worker_name \in Options(unavailable_workers_add)
  /\ unavailable_workers_display' = add_line(unavailable_workers_display, worker_name)
  /\ unavailable_workers_add' = delete_option(unavailable_workers_add, worker_name)
  /\ unavailable_workers_remove' = add_option(unavailable_workers_remove, worker_name)
  /\ last_op' = [op |-> "set_absent", name |-> worker_name]
  /\ UNCHANGED <<plannerVars, rides_display, ride_delete, grid_rows, grid_columns,
                 worker_delete, unavailable_rides_display, unavailable_rides_add,
                 unavailable_rides_remove>>

handle_set_present(worker_name) ==
  /\ worker_name \in Options(unavailable_workers_remove)
  /\ unavailable_workers_display' = delete_line(unavailable_workers_display, worker_name)
  /\ unavailable_workers_remove' = delete_option(unavailable_workers_remove, worker_name)
  /\ unavailable_workers_add' = add_option(unavailable_workers_add, worker_name)
  /\ last_op' = [op |-> "set_present", name |-> worker_name]
  /\ UNCHANGED <<plannerVars, rides_display, ride_delete, grid_rows, grid_columns,
                 worker_delete, unavailable_rides_display, unavailable_rides_add,
                 unavailable_rides_remove>>

handle_set_closed(ride_name) ==
  /\ ride_name \in Options(unavailable_rides_add)
  /\ unavailable_rides_display' = add_line(unavailable_rides_display, ride_name)
  /\ unavailable_rides_add' = delete_option(unavailable_rides_add, ride_name)
  /\ unavailable_rides_remove' = add_option(unavailable_rides_remove, ride_name)
  /\ last_op' = [op |-> "set_closed", name |-> ride_name]
  /\ UNCHANGED <<plannerVars, rides_display, ride_delete, grid_rows, grid_columns,
                 worker_delete, unavailable_workers_display, unavailable_workers_add,
                 unavailable_workers_remove>>

handle_set_open(ride_name) ==
  /\ ride_name \in Options(unavailable_rides_remove)
  /\ unavailable_rides_display' = delete_line(unavailable_rides_display, ride_name)
  /\ unavailable_rides_add' = add_option(unavailable_rides_add, ride_name)
  /\ unavailable_rides_remove' = delete_option(unavailable_rides_remove, ride_name)
  /\ last_op' = [op |-> "set_open", name |-> ride_name]
  /\ UNCHANGED <<plannerVars, rides_display, ride_delete, grid_rows, grid_columns,
                 worker_delete, unavailable_workers_display, unavailable_workers_add,
                 unavailable_workers_remove>>

NextEditor ==
  \/ \E name \in TypedRides : \E duration \in TypedDurations :
        handle_add_ride(name, duration)
  \/ \E ride \in TypedRides : handle_delete_ride(ride)
  \/ \E name \in TypedWorkers : handle_add_worker(name)
  \/ \E worker_name \in TypedWorkers : handle_delete_worker(worker_name)
  \/ \E worker_name \in TypedWorkers : handle_set_absent(worker_name)
  \/ \E worker_name \in TypedWorkers : handle_set_present(worker_name)
  \/ \E ride_name \in TypedRides : handle_set_closed(ride_name)
  \/ \E ride_name \in TypedRides : handle_set_open(ride_name)

SpecEditor == InitEditor /\ [][NextEditor]_vars

\* ================================================================= claims
\* What the claims speak of, stated on the arguments of
\* generate_multiple_day_assignments alone.
Days == 1..Len(days_info)
IsOpen(d) == days_info[d].time # 0
EffectiveRides(d) == DOMAIN all_rides_time \ days_info[d].rides_ua
EffectiveWorkers(d) == DOMAIN all_workers_can_check \ days_info[d].workers_ua

RECURSIVE TotalTime(_)
TotalTime(rides) ==
  IF rides = {} THEN 0
  ELSE LET ride == CHOOSE r \in rides : TRUE
       IN  all_rides_time[ride] + TotalTime(rides \ {ride})

\* the time the rides an assignment gives to worker take together
Load(assignment, worker) ==
  TotalTime({ride \in DOMAIN assignment : assignment[ride] = worker})

Capable(assignment) ==
  \A ride \in DOMAIN assignment : ride \in all_workers_can_check[assignment[ride]]

WithinBudget(assignment, d) ==
  \A worker \in EffectiveWorkers(d) : Load(assignment, worker) <= days_info[d].time

\* a complete assignment of day d that respects capability and budget exists
Feasible(d) ==
  \E assignment \in [EffectiveRides(d) -> EffectiveWorkers(d)] :
     Capable(assignment) /\ WithinBudget(assignment, d)

\* no single transfer of a ride satisfies the acceptance rule
LocallyOptimal(assignment, d) ==
  \A ride \in DOMAIN assignment :
     \A worker \in EffectiveWorkers(d) \ {assignment[ride]} :
        ride \in all_workers_can_check[worker] =>
          ~should_transfer(days_info[d].time - Load(assignment, worker),
                           days_info[d].time - Load(assignment, assignment[ride]),
                           all_rides_time[ride])

Finished(d) == d \in DOMAIN calls /\ calls[d] # "running"
\* the day whose call returned the current value of day_assignment
LastFinished ==
  CHOOSE d \in DOMAIN calls :
     Finished(d) /\ \A e \in DOMAIN calls : Finished(e) => e <= d
HasReturned == \E d \in DOMAIN calls : Finished(d)
\* the complete assignments a day has got so far: handed over by dfs and held
\* by the hill-climb, returned, recorded in the plan
CompleteAssignmentsOf(d) ==
  (IF pc = "hillclimb" /\ d = day THEN {complete_assignment} ELSE {})
  \cup (IF HasReturned /\ d = LastFinished /\ ~day_assignment.isNone
          THEN {day_assignment.dict} ELSE {})
  \cup (IF ~multiple_day_assignments.isNone /\ d \in DOMAIN multiple_day_assignments.dict
          THEN {multiple_day_assignments.dict[d]} ELSE {})

\* and with them the partial assignments of the activations of dfs
AssignmentsOf(d) ==
  CompleteAssignmentsOf(d)
  \cup (IF pc = "dfs" /\ d = day
          THEN {stack[i].partial_assignment : i \in DOMAIN stack} ELSE {})

\* C1: an assignment handed over by dfs, held during the hill-climb, returned
\* for an open day or recorded for it has exactly the day's effective rides
\* (all rides minus the day's rides_ua) as its keys.
Coverage ==
  \A d \in Days : IsOpen(d) =>
     \A assignment \in CompleteAssignmentsOf(d) : DOMAIN assignment = EffectiveRides(d)

\* C1 witness: a day with an unavailable ride got an assignment of several
\* rides, after a search and a hill-climb.
CoverageWitness ==
  /\ pc = "returned"
  /\ \E d \in Days :
       /\ IsOpen(d) /\ days_info[d].rides_ua # {}
       /\ d = LastFinished /\ calls[d] = "dict"
       /\ Cardinality(DOMAIN day_assignment.dict) >= 2

\* C2: in every state of dfs and of the hill-climb, and in what is returned
\* and recorded, each ride is with a worker whose capability set holds it.
CapabilityValidity ==
  \A d \in Days : \A assignment \in AssignmentsOf(d) : Capable(assignment)

\* C2 witness: the hill-climb has moved a ride to an accepting worker.
CapabilityWitness ==
  /\ pc = "hillclimb"
  /\ transfers >= 1
  /\ \E ride \in DOMAIN complete_assignment :
        Cardinality(accepting_workers(complete_assignment[ride], ride)) >= 1

\* C3: in every state of dfs and of the hill-climb no remaining time is
\* negative and no worker's rides take more than the day's budget.
BudgetValidity ==
  /\ \A i \in DOMAIN stack : \A worker \in DOMAIN stack[i].partial_worker_times_remaining :
        stack[i].partial_worker_times_remaining[worker] >= 0
  /\ \A worker \in DOMAIN complete_worker_times_remaining :
        complete_worker_times_remaining[worker] >= 0
  /\ \A d \in Days : \A assignment \in AssignmentsOf(d) : WithinBudget(assignment, d)

\* C3 witness: after an accepted transfer, a worker whose rides take the whole
\* budget or an accepting worker that holds rides of positive duration.
BudgetWitness ==
  /\ pc = "hillclimb"
  /\ transfers >= 1
  /\ \E worker \in DOMAIN complete_worker_times_remaining :
        /\ Load(complete_assignment, worker) > 0
        /\ complete_worker_times_remaining[worker] < worker_time

\* C4 (as claimed): a finished call of generate_day_assignment has returned
\* None exactly when the day has no complete assignment that respects
\* capability and budget.
NoneIffInfeasible ==
  \A d \in DOMAIN calls : Finished(d) => ((calls[d] = "None") <=> ~Feasible(d))

\* C5: whether a call returns None is fixed by its input, whatever orders the
\* shuffles draw: it is None exactly when the day has no ride or no complete
\* valid assignment, and two days of a week with the same budget and the same
\* unavailable rides and workers end alike.
FeasibilityDeterministic ==
  /\ \A d \in DOMAIN calls : Finished(d) =>
        ((calls[d] = "None") <=> (EffectiveRides(d) = {} \/ ~Feasible(d)))
  /\ \A d \in DOMAIN calls : \A e \in DOMAIN calls :
        Finished(d) /\ Finished(e) /\ days_info[d] = days_info[e] => calls[d] = calls[e]

\* C5 witness: two calls on the same input have both returned.
DeterministicWitness ==
  \E d \in DOMAIN calls : \E e \in DOMAIN calls :
     d < e /\ Finished(d) /\ Finished(e) /\ days_info[d] = days_info[e]

\* C6 (as claimed): the step of the loop on a closed day puts the empty
\* assignment for that day into the plan and calls no search, whatever the days
\* before it gave.
ClosedDayTriviality ==
  [][(pc = "loop" /\ day <= Len(days_info) /\ days_info[day].time = 0) =>
       /\ pc' = "loop"
       /\ calls' = calls
       /\ ~multiple_day_assignments'.isNone
       /\ day \in DOMAIN multiple_day_assignments'.dict
       /\ multiple_day_assignments'.dict[day] = <<>>]_vars

\* C7 (as claimed): generate_multiple_day_assignments never ends in an error.
NeverRaises == pc # "raised"

\* a day whose search reported Infeasible
ReportedInfeasible(d) == d \in DOMAIN calls /\ calls[d] = "None"

\* C8: the plan returned is None exactly when the search of some open day
\* reported Infeasible.
WeekSuccessFlag ==
  pc = "returned" =>
     (multiple_day_assignments.isNone <=> \E d \in Days : IsOpen(d) /\ ReportedInfeasible(d))

\* C8 witness: None is returned for a week that also has a day with an
\* assignment.
WeekSuccessFlagWitness ==
  /\ pc = "returned"
  /\ multiple_day_assignments.isNone
  /\ \E d \in Days : d \in DOMAIN calls /\ calls[d] = "dict"

\* C9: when no day is reported Infeasible, the plan returned has one entry per
\* day: the empty mapping for a closed day, and for an open day a complete
\* valid assignment of its effective rides that no transfer improves.
WeekPlanEntries ==
  (pc = "returned" /\ \A d \in Days : ~ReportedInfeasible(d)) =>
     /\ ~multiple_day_assignments.isNone
     /\ DOMAIN multiple_day_assignments.dict = Days
     /\ \A d \in Days :
          LET assignment == multiple_day_assignments.dict[d]
          IN  IF IsOpen(d)
                THEN /\ DOMAIN assignment = EffectiveRides(d)
                     /\ \A ride \in DOMAIN assignment : assignment[ride] \in EffectiveWorkers(d)
                     /\ Capable(assignment)
                     /\ WithinBudget(assignment, d)
                     /\ LocallyOptimal(assignment, d)
                ELSE assignment = <<>>

\* C9 witness: a plan is returned for a week with a closed day and an open day.
WeekPlanWitness ==
  /\ pc = "returned"
  /\ ~multiple_day_assignments.isNone
  /\ \E d \in Days : ~IsOpen(d)
  /\ \E d \in Days : IsOpen(d) /\ multiple_day_assignments.dict[d] # <<>>

\* C10 (as claimed): when no day is reported Infeasible, the narrative returned
\* names every day of the week, closed or planned, in input order.
NarrativeNamesEveryDay ==
  (pc = "returned" /\ \A d \in Days : ~ReportedInfeasible(d)) =>
     /\ \A d \in Days : Occurrences(status_string, DayName(d)) # {}
     /\ \A d \in Days : \A e \in Days :
          d < e => Min(Occurrences(status_string, DayName(d)))
                     < Min(Occurrences(status_string, DayName(e)))

\* the ids of the days in ds, in input order, with ", " between them
RECURSIVE Listed(_)
Listed(ds) ==
  IF ds = {} THEN <<>>
  ELSE LET d == Min(ds)
       IN  DayName(d) \o (IF ds = {d} THEN <<>> ELSE separator \o Listed(ds \ {d}))

\* C11: when the search of at least one day reported Infeasible, the narrative
\* returned is the failure prefix followed by the ids of exactly the days
\* reported Infeasible, in input order, wherever in the week they fall; a day
\* that got an assignment, before or after, is not in it.
FailureNarrative ==
  (pc = "returned" /\ \E d \in Days : ReportedInfeasible(d)) =>
     status_string = string_failure \o Listed({d \in Days : ReportedInfeasible(d)})

\* C11 witness: a week is returned whose first day got an assignment and whose
\* middle day and last day were reported Infeasible.
FailureNarrativeWitness ==
  /\ pc = "returned"
  /\ Len(days_info) = 3
  /\ calls = <<"dict", "None", "None">>

\* no worker A other than the holder T of a ride of duration d, capable of the
\* ride, has |rem(A) - rem(T) - 2d| < |rem(A) - rem(T)| and rem(A) > rem(T)
NoImprovingTransfer(assignment, d) ==
  \A ride \in DOMAIN assignment :
     \A A \in EffectiveWorkers(d) \ {assignment[ride]} :
        LET T == assignment[ride]
            remA == days_info[d].time - Load(assignment, A)
            remT == days_info[d].time - Load(assignment, T)
            dur == all_rides_time[ride]
        IN  ride \in all_workers_can_check[A] =>
              ~(Abs(remA - remT - 2 * dur) < Abs(remA - remT) /\ remA > remT)

\* C12: the assignment the balancer returns, and every one recorded in the
\* plan, is a fixed point: no ride has a capable other worker for which the
\* acceptance rule holds, so a further pass of the loop would move nothing.
BalancerFixedPoint ==
  /\ HasReturned /\ ~day_assignment.isNone =>
        NoImprovingTransfer(day_assignment.dict, LastFinished)
  /\ ~multiple_day_assignments.isNone =>
        \A d \in DOMAIN multiple_day_assignments.dict :
           IsOpen(d) => NoImprovingTransfer(multiple_day_assignments.dict[d], d)

\* C12 witness: an assignment is returned in which a ride has a capable other
\* worker, and the rule rejects the transfer.
FixedPointWitness ==
  /\ HasReturned /\ ~day_assignment.isNone
  /\ \E ride \in DOMAIN day_assignment.dict :
        \E A \in EffectiveWorkers(LastFinished) \ {day_assignment.dict[ride]} :
           /\ ride \in all_workers_can_check[A]
           /\ all_rides_time[ride] > 0
           /\ Load(day_assignment.dict, A) # Load(day_assignment.dict, day_assignment.dict[ride])

RECURSIVE SumOfSquares(_, _)
SumOfSquares(times, workers) ==
  IF workers = {} THEN 0
  ELSE LET worker == CHOOSE w \in workers : TRUE
       IN  times[worker] * times[worker] + SumOfSquares(times, workers \ {worker})

\* a natural number that measures how unevenly the remaining times lie
Imbalance ==
  SumOfSquares(complete_worker_times_remaining, DOMAIN complete_worker_times_remaining)

\* C13: the balancer stops after finitely many transfers whatever orders the
\* shuffles draw: every accepted transfer makes the sum of the squares of the
\* remaining times, which is never negative, strictly smaller, so that no run
\* of transfers comes back to an assignment or goes on for ever.
BalancerTerminates ==
  [][(pc = "hillclimb" /\ pc' = "hillclimb") =>
        (Imbalance' < Imbalance /\ Imbalance' >= 0)]_vars

\* C13 witness: after at least one transfer the balancer has reached a pass
\* that finds no improving transfer.
BalancerTerminatesWitness ==
  /\ pc = "hillclimb"
  /\ transfers >= 1
  /\ \A T \in DOMAIN workers_can_check : \A ride \in DOMAIN rides_time :
        ~try_transfer_ride(T, ride)

\* C14: every transfer the balancer applies, of a ride from T to A, makes
\* |remaining[A] - remaining[T]| strictly smaller.
TransferNarrowsGap ==
  [][(pc = "hillclimb" /\ pc' = "hillclimb") =>
        \E ride \in DOMAIN complete_assignment :
           LET T == complete_assignment[ride]
               A == complete_assignment'[ride]
           IN  /\ A # T
               /\ Abs(complete_worker_times_remaining'[A]
                        - complete_worker_times_remaining'[T])
                    < Abs(complete_worker_times_remaining[A]
                            - complete_worker_times_remaining[T])]_vars

\* C14 witness: a transfer has brought the holder of a ride of positive
\* duration and a worker who could accept the ride to the same remaining time.
NarrowsGapWitness ==
  /\ pc = "hillclimb"
  /\ transfers >= 1
  /\ \E ride \in DOMAIN complete_assignment :
        \E A \in accepting_workers(complete_assignment[ride], ride) :
           /\ rides_time[ride] > 0
           /\ complete_worker_times_remaining[A]
                = complete_worker_times_remaining[complete_assignment[ride]]

Max(S) == CHOOSE x \in S : \A y \in S : y <= x

\* largest minus smallest remaining time over the day's workers
Spread ==
  LET times == {complete_worker_times_remaining[worker] :
                   worker \in DOMAIN complete_worker_times_remaining}
  IN  Max(times) - Min(times)

\* C15: no accepted transfer makes the spread of the remaining times larger,
\* so that after any number of transfers it is at most the spread of the
\* assignment dfs handed over.
SpreadNeverGrows ==
  [][(pc = "hillclimb" /\ pc' = "hillclimb") => Spread' <= Spread]_vars

\* C15 witness: after a transfer all workers of the day have the same
\* remaining time.
SpreadWitness ==
  /\ pc = "hillclimb"
  /\ transfers >= 1
  /\ Cardinality(DOMAIN complete_worker_times_remaining) >= 2
  /\ Spread = 0

\* C16: with the registries, the budget and the unavailable rides the same, a
\* day whose search reported Infeasible with the workers X unavailable has no
\* counterpart with a superset of X unavailable whose search gave an assignment.
ExclusionMonotone ==
  \A d \in DOMAIN calls : \A e \in DOMAIN calls :
     (/\ Finished(d) /\ Finished(e)
      /\ days_info[d].time = days_info[e].time
      /\ days_info[d].rides_ua = days_info[e].rides_ua
      /\ days_info[d].workers_ua \subseteq days_info[e].workers_ua
      /\ calls[d] = "None")
     => calls[e] = "None"

\* C16 witness: a day with rides was reported Infeasible with everybody there,
\* and the search has also run with one worker less and another still there.
ExclusionMonotoneWitness ==
  \E d \in DOMAIN calls : \E e \in DOMAIN calls :
     /\ Finished(d) /\ Finished(e)
     /\ days_info[d].time = days_info[e].time
     /\ days_info[d].rides_ua = days_info[e].rides_ua
     /\ days_info[d].workers_ua \subseteq days_info[e].workers_ua
     /\ days_info[d].workers_ua # days_info[e].workers_ua
     /\ calls[d] = "None"
     /\ EffectiveRides(d) # {}
     /\ EffectiveWorkers(e) # {}
     /\ \E worker \in EffectiveWorkers(e) : all_workers_can_check[worker] # {}

AssignedAfterFailure(d) ==
  /\ d \in DOMAIN calls
  /\ calls[d] = "dict"
  /\ \E e \in DOMAIN calls : e < d /\ ReportedInfeasible(e)

\* C18 (as claimed): a day that got an assignment after the first Infeasible
\* day is left out of the result, and its id is in the narrative.
LateDayStillNamed ==
  \A d \in Days : AssignedAfterFailure(d) =>
     /\ multiple_day_assignments.isNone
     /\ Occurrences(status_string, DayName(d)) # {}

\* C18 (amended): a day that got an assignment after the first Infeasible day
\* is left out of the result, and its id is not in the narrative either.
LateDayLeftOut ==
  \A d \in Days : AssignedAfterFailure(d) =>
     /\ multiple_day_assignments.isNone
     /\ Occurrences(status_string, DayName(d)) = {}

\* C18 witness: a week is returned in which a day got an assignment after an
\* Infeasible day.
LateDayWitness ==
  /\ pc = "returned"
  /\ \E d \in Days : AssignedAfterFailure(d)

\* remaining times over the day's workers that are the budget minus the time
\* of the rides the assignment gives to each
Bookkept(assignment, worker_times_remaining) ==
  /\ DOMAIN worker_times_remaining = EffectiveWorkers(day)
  /\ \A worker \in EffectiveWorkers(day) :
        worker_times_remaining[worker] = days_info[day].time - Load(assignment, worker)

BookkeptEverywhere ==
  /\ pc = "dfs" =>
        \A i \in DOMAIN stack :
           Bookkept(stack[i].partial_assignment, stack[i].partial_worker_times_remaining)
  /\ pc = "hillclimb" => Bookkept(complete_assignment, complete_worker_times_remaining)

\* one ride goes from its worker T to another worker A, T gets the ride's
\* duration back, A gives it, and nothing else changes
TransferEffect ==
  \E ride \in DOMAIN complete_assignment :
     \E A \in DOMAIN complete_worker_times_remaining \ {complete_assignment[ride]} :
        LET T == complete_assignment[ride]
            d == all_rides_time[ride]
        IN  /\ complete_assignment' = [complete_assignment EXCEPT ![ride] = A]
            /\ complete_worker_times_remaining' =
                  [complete_worker_times_remaining EXCEPT ![T] = @ + d, ![A] = @ - d]

\* C19: in every state of dfs and of the hill-climb each worker's remaining
\* time is the day's budget minus the durations of the rides assigned to the
\* worker, and an accepted transfer adds the duration to T, takes it from A,
\* reassigns that one ride and leaves every other entry as it was.
RemainingTimeBookkeeping ==
  /\ []BookkeptEverywhere
  /\ [][(pc = "hillclimb" /\ pc' = "hillclimb") => TransferEffect]_vars

\* C19 witness: after a transfer, two workers both hold rides of positive
\* duration.
BookkeepingWitness ==
  /\ pc = "hillclimb"
  /\ transfers >= 1
  /\ \E A \in DOMAIN complete_worker_times_remaining :
        \E T \in DOMAIN complete_worker_times_remaining :
           A # T /\ Load(complete_assignment, A) > 0 /\ Load(complete_assignment, T) > 0

\* the search of the current day works on the day's own budget and on the
\* registries without the day's unavailable rides and workers, and the first
\* activation of dfs has the empty assignment and the whole budget for everyone
DayStartsFresh ==
  /\ pc \in {"dfs", "hillclimb"} =>
        /\ worker_time = days_info[day].time
        /\ rides_time = [ride \in EffectiveRides(day) |-> all_rides_time[ride]]
        /\ workers_can_check =
              [worker \in EffectiveWorkers(day) |-> all_workers_can_check[worker]]
  /\ pc = "dfs" =>
        /\ stack[1].partial_assignment = <<>>
        /\ stack[1].partial_worker_times_remaining =
              [worker \in EffectiveWorkers(day) |-> days_info[day].time]

\* what a search returned is what the day's own entry and the registries fix
OutcomeOfOwnInput ==
  \A d \in DOMAIN calls : Finished(d) =>
     IF EffectiveRides(d) # {} /\ Feasible(d) THEN calls[d] = "dict" ELSE calls[d] = "None"

\* C20: no step changes all_rides_time, all_workers_can_check or days_info,
\* the search of each open day starts from the empty assignment with the day's
\* budget as every effective worker's remaining time, and the outcome of a
\* search is fixed by the day's own input, whatever the other days are and
\* wherever the day stands.
StatelessDays ==
  /\ [][inputs' = inputs]_vars
  /\ []DayStartsFresh
  /\ []OutcomeOfOwnInput

\* C20 witness: the search of a day runs after the search of an earlier day
\* with other workers unavailable has returned.
StatelessDaysWitness ==
  /\ pc = "dfs"
  /\ \E d \in DOMAIN calls :
        /\ d < day
        /\ Finished(d)
        /\ days_info[d].workers_ua # days_info[day].workers_ua

\* C21 (as claimed): the narrative returned is one of the two complete
\* prefixes followed by ids of days of the week, in input order, with ", "
\* between them, also when no id was appended.
NarrativeKeepsPrefix ==
  pc = "returned" =>
     \E prefix \in {string_success, string_failure} :
        \E ds \in SUBSET Days : status_string = prefix \o Listed(ds)

\* C22: the mapping to_ride_assignment makes of a solver solution has exactly
\* the rides of the solution's tuples as keys, gives each ride to a worker
\* whose tuple holds it, and to one with the fewest rides among the holders;
\* the remaining times derived from it are never negative.
CspConversion ==
  /\ pc \in {"times", "hillclimb"} =>
        /\ DOMAIN complete_assignment =
              UNION {solution.dict[worker] : worker \in DOMAIN solution.dict}
        /\ DOMAIN complete_assignment = DOMAIN rides_time
        /\ \A ride \in DOMAIN complete_assignment :
              /\ complete_assignment[ride] \in DOMAIN solution.dict
              /\ ride \in solution.dict[complete_assignment[ride]]
              /\ \A holder \in DOMAIN solution.dict :
                    ride \in solution.dict[holder] =>
                      Cardinality(solution.dict[complete_assignment[ride]])
                        <= Cardinality(solution.dict[holder])
  /\ pc = "hillclimb" =>
        \A worker \in DOMAIN complete_worker_times_remaining :
           complete_worker_times_remaining[worker] >= 0

\* C22 witness: the remaining times are derived from a solution in which a
\* ride of positive duration is in the tuples of two workers with different
\* numbers of rides.
CspConversionWitness ==
  /\ pc = "hillclimb"
  /\ ~solution.isNone
  /\ \E ride \in DOMAIN rides_time :
        \E a \in DOMAIN solution.dict : \E b \in DOMAIN solution.dict :
           /\ ride \in solution.dict[a] \cap solution.dict[b]
           /\ Cardinality(solution.dict[a]) < Cardinality(solution.dict[b])
           /\ rides_time[ride] > 0

\* C23: for the remaining time A of the worker who could accept the ride, the
\* remaining time T of its holder and its duration d, all non-negative,
\* should_transfer(A, T, d) is true exactly when 0 < d < A - T; the strict
\* inequality of the absolute values alone gives A > T; a ride of duration 0
\* is never transferred; and after the transfer the accepting worker, now the
\* holder, has more remaining time than the transferring worker had before it
\* (what that worker has now, less d).
ShouldTransferRule ==
  LET T_worker == complete_assignment[1]
      A_worker == 3 - T_worker
      A == complete_worker_times_remaining[A_worker]
      T == complete_worker_times_remaining[T_worker]
      d == rides_time[1]
  IN  /\ should_transfer(A, T, d) <=> (0 < d /\ d < A - T)
      /\ Abs(A - T - 2 * d) < Abs(A - T) => A > T
      /\ d = 0 => ~should_transfer(A, T, d)
      /\ transfers >= 1 => T > A - d

\* C23 witness: a ride of duration 2 or more has been transferred between
\* two workers whose remaining times were drawn freely.
ShouldTransferWitness ==
  /\ pc = "hillclimb"
  /\ days_info = <<>>
  /\ transfers = 1
  /\ complete_assignment = << 1 >>
  /\ rides_time[1] >= 2
  /\ complete_worker_times_remaining[1] > complete_worker_times_remaining[2]

\* the lines without those of a name: the labels of a day's list are names,
\* the labels of the rides' list are "name, time"
WithoutName(lines, name) ==
  LET Keep(line) == line # name IN SelectSeq(lines, Keep)

WithoutRide(lines, name) ==
  LET Keep(line) == _from_line(line) # name IN SelectSeq(lines, Keep)

\* C24 (as claimed): deleting a ride or a worker takes away the line of
\* exactly that name in every list that shows it and nothing else: the lists
\* read back differ from what they were only by the deleted name.
DeletionByName ==
  [][/\ last_op'.op = "delete_ride" =>
          /\ rides_display' = WithoutRide(rides_display, last_op'.name)
          /\ unavailable_rides_display' =
                WithoutName(unavailable_rides_display, last_op'.name)
          /\ unavailable_workers_display' = unavailable_workers_display
     /\ last_op'.op = "delete_worker" =>
          /\ unavailable_workers_display' =
                WithoutName(unavailable_workers_display, last_op'.name)
          /\ unavailable_rides_display' = unavailable_rides_display
          /\ rides_display' = rides_display]_vars

====
